---- MODULE Spec2Model ----
(***************************************************************************)
(* Asset replication (cognite/replicator/assets.py): the depth-by-depth    *)
(* hierarchy walker create_hierarchy, the two deletion sweeps and the      *)
(* driver replicate, run against a live source store and a live            *)
(* destination store.                                                      *)
(*                                                                         *)
(* An asset is a record [id, parent_id, name, metadata].  `name` stands    *)
(* for the four scalar fields external_id, name, description and source,   *)
(* which every line of the program copies together.  Python's None is the  *)
(* number 0 for ids (store ids are positive); an optional metadata dict is *)
(* [null, map].                                                            *)
(***************************************************************************)
EXTENDS Integers, Sequences, FiniteSets, TLC

\* ------------------------------------------------------------------ bounds
MaxSrc == 3          \* source internal ids are 1..MaxSrc
MaxOrganic == 1      \* destination assets that exist before the first run
MaxDstId == 5        \* the destination store hands out ids 1..MaxDstId
MaxTime == 2         \* the clock int(time.time()) reads 1..MaxTime, one more each run
MaxFailures == 1     \* items a store may refuse in one run
MaxSrcChanges == 1   \* edits of the source between runs
E2ESize == 6         \* size of the source forests of the end-to-end runs
WalkSize == 3        \* size of the source listings with arbitrary parent links

\* ------------------------------------------------------------- data model
None == 0
project_src == "src"

KeySource == "_replicatedSource"
KeyInternalId == "_replicatedInternalId"
KeyTime == "_replicatedTime"
ReplicationKeys == {KeySource, KeyInternalId, KeyTime}

EmptyDict == [k \in {} |-> ""]
MdNone == [null |-> TRUE, map |-> EmptyDict]
MdDict(m) == [null |-> FALSE, map |-> m]

\* Python truthiness of an Optional[dict]: None and {} are falsy.
Truthy(md) == ~md.null /\ DOMAIN md.map # {}

\* str(n) and int(s) for the numbers the stores keep as metadata strings.
\* Ids are below 1000; run times are whole seconds in milliseconds.
Numerals == <<"1", "2", "3", "4", "5", "6", "7", "8", "9", "10", "11", "12">>
Thousands == <<"1000", "2000", "3000", "4000", "5000", "6000">>
ToStr(n) == IF n < 1000 THEN Numerals[n] ELSE Thousands[n \div 1000]
ToInt(s) ==
    IF \E n \in DOMAIN Numerals : Numerals[n] = s
    THEN CHOOSE n \in DOMAIN Numerals : Numerals[n] = s
    ELSE 1000 * (CHOOSE n \in DOMAIN Thousands : Thousands[n] = s)

Range(s) == {s[i] : i \in DOMAIN s}

RECURSIVE SortById(_)
SortById(S) ==
    IF S = {} THEN <<>>
    ELSE LET a == CHOOSE x \in S : \A y \in S : x.id <= y.id
         IN  <<a>> \o SortById(S \ {a})

RECURSIVE SortInts(_)
SortInts(S) ==
    IF S = {} THEN <<>>
    ELSE LET a == CHOOSE x \in S : \A y \in S : x <= y
         IN  <<a>> \o SortInts(S \ {a})

\* The items of list s at the positions in ok, in list order.
Pick(s, ok) == LET idx == SortInts(ok) IN [i \in 1..Len(idx) |-> s[idx[i]]]

\* client.assets.list(limit=None): the store's assets as an ordered sequence.
ListAssets(store) == SortById(store)

\* --------------------------------------------- replication.py (collaborator)
\* new_metadata: the source asset's own metadata plus the three replication
\* keys, which overwrite any such key the source metadata already has.
new_metadata(src_asset, project, runtime) ==
    LET own == IF Truthy(src_asset.metadata) THEN src_asset.metadata.map ELSE EmptyDict
    IN  MdDict((KeySource :> project) @@ (KeyTime :> ToStr(runtime))
               @@ (KeyInternalId :> ToStr(src_asset.id)) @@ own)

\* Whether a destination asset carries the id of a source asset.
HasInternalId(a) ==
    /\ Truthy(a.metadata)
    /\ KeyInternalId \in DOMAIN a.metadata.map
    /\ a.metadata.map[KeyInternalId] # ""

ReplicatedInternalId(a) == ToInt(a.metadata.map[KeyInternalId])

\* The source id an asset is tagged with, None when it has no tag.
SourceIdOf(a) == IF HasInternalId(a) THEN ReplicatedInternalId(a) ELSE None

\* make_id_object_map: source id -> the destination asset tagged with it (the
\* last one of the listing when several are).
make_id_object_map(objects) ==
    LET tagged == {i \in DOMAIN objects : HasInternalId(objects[i])}
        keys == {ReplicatedInternalId(objects[i]) : i \in tagged}
        last(k) == CHOOSE i \in tagged :
                      /\ ReplicatedInternalId(objects[i]) = k
                      /\ \A j \in tagged : ReplicatedInternalId(objects[j]) = k => j <= i
    IN  [k \in keys |-> objects[last(k)]]

\* existing_mapping: fold assets into the Id Mapping, source internal id ->
\* destination internal id; later assets overwrite earlier entries.
RECURSIVE existing_mapping(_, _)
existing_mapping(objects, ids) ==
    IF objects = <<>> THEN ids
    ELSE LET obj == Head(objects)
             next == IF HasInternalId(obj)
                     THEN (ReplicatedInternalId(obj) :> obj.id) @@ ids
                     ELSE ids
         IN  existing_mapping(Tail(objects), next)

\* The classifier's equality: the replicable fields, metadata without the
\* replication keys.
OwnMetadata(md) ==
    IF Truthy(md) THEN [k \in DOMAIN md.map \ ReplicationKeys |-> md.map[k]] ELSE EmptyDict

Differs(src_asset, dst_asset) ==
    \/ src_asset.name # dst_asset.name
    \/ OwnMetadata(src_asset.metadata) # OwnMetadata(dst_asset.metadata)

\* ------------------------------------------------------------- assets.py
NoAsset == [id |-> None, parent_id |-> None, name |-> "", metadata |-> MdNone]

\* Faulty variants of build_asset_create.  With src_id_dst_map.get(parent_id):
\* a missing parent gives a root instead of a KeyError.
build_asset_create_orphan(src_asset, src_id_dst_map, project, runtime, depth) ==
    [raised |-> FALSE,
     asset |-> [id |-> None,
                name |-> src_asset.name,
                metadata |-> new_metadata(src_asset, project, runtime),
                parent_id |-> IF depth > 0 /\ src_asset.parent_id \in DOMAIN src_id_dst_map
                              THEN src_id_dst_map[src_asset.parent_id] ELSE None]]

\* With metadata=src_asset.metadata: the copy carries no replication keys.
build_asset_create_untagged(src_asset, src_id_dst_map, project, runtime, depth) ==
    IF depth > 0 /\ src_asset.parent_id \notin DOMAIN src_id_dst_map
    THEN [raised |-> TRUE, asset |-> NoAsset]
    ELSE [raised |-> FALSE,
          asset |-> [id |-> None,
                     name |-> src_asset.name,
                     metadata |-> src_asset.metadata,
                     parent_id |-> IF depth > 0 THEN src_id_dst_map[src_asset.parent_id]
                                   ELSE None]]

\* With parent_id=src_asset.parent_id: the source's id, not the destination's.
build_asset_create_srcparent(src_asset, src_id_dst_map, project, runtime, depth) ==
    IF depth > 0 /\ src_asset.parent_id \notin DOMAIN src_id_dst_map
    THEN [raised |-> TRUE, asset |-> NoAsset]
    ELSE [raised |-> FALSE,
          asset |-> [id |-> None,
                     name |-> src_asset.name,
                     metadata |-> new_metadata(src_asset, project, runtime),
                     parent_id |-> IF depth > 0 THEN src_asset.parent_id ELSE None]]

\* build_asset_create: the payload, or the KeyError of src_id_dst_map[...].
build_asset_create(src_asset, src_id_dst_map, project, runtime, depth) ==
    IF depth > 0 /\ src_asset.parent_id \notin DOMAIN src_id_dst_map
    THEN [raised |-> TRUE, asset |-> NoAsset]
    ELSE [raised |-> FALSE,
          asset |-> [id |-> None,
                     name |-> src_asset.name,
                     metadata |-> new_metadata(src_asset, project, runtime),
                     parent_id |-> IF depth > 0 THEN src_id_dst_map[src_asset.parent_id]
                                   ELSE None]]

\* Faulty variant of build_asset_update, with the assignment of line 66 in
\* force: the destination asset is moved below the copy of the source parent.
build_asset_update_reparent(src_asset, dst_asset, src_id_dst_map, project, runtime, depth) ==
    [dst_asset EXCEPT !.name = src_asset.name,
                      !.metadata = new_metadata(src_asset, project, runtime),
                      !.parent_id = IF depth > 0 /\ src_asset.parent_id \in DOMAIN src_id_dst_map
                                    THEN src_id_dst_map[src_asset.parent_id]
                                    ELSE IF depth > 0 THEN @ ELSE None]

\* build_asset_update: the destination asset with its fields refreshed; id and
\* parent_id are not assigned.
build_asset_update(src_asset, dst_asset, src_id_dst_map, project, runtime, depth) ==
    [dst_asset EXCEPT !.name = src_asset.name,
                      !.metadata = new_metadata(src_asset, project, runtime)]

\* The sentinel [None] of find_children: the None in the place of an asset is a
\* record without an id field.
NoneList == <<[isNone |-> TRUE]>>

\* Faulty variant of find_children, with None always among the parent ids: the
\* roots come back at every depth.
find_children_roots(assets, parents) ==
    LET parent_ids == IF parents = NoneList THEN {None}
                      ELSE {parents[i].id : i \in DOMAIN parents} \cup {None}
    IN  SelectSeq(assets, LAMBDA asset : asset.parent_id \in parent_ids)

\* Faulty variant of find_children, with the id of the first parent only: the
\* children of the other assets of the level are left out.
find_children_first(assets, parents) ==
    LET parent_ids == IF parents = NoneList THEN {None}
                      ELSE {parents[i].id : i \in {1}}
    IN  SelectSeq(assets, LAMBDA asset : asset.parent_id \in parent_ids)

\* find_children: parents is the sentinel [None] or a list of assets.
find_children(assets, parents) ==
    LET parent_ids == IF parents = NoneList THEN {None}
                      ELSE {parents[i].id : i \in DOMAIN parents}
    IN  SelectSeq(assets, LAMBDA asset : asset.parent_id \in parent_ids)

\* make_objects_batch (replication.py): split one depth's source assets into
\* payloads to create, destination assets to update and unchanged destination
\* assets; an error raised while a payload is built leaves the function.
make_objects_batch(src_objects, src_id_dst, src_dst_ids_assets, project, runtime, depth_) ==
    LET known(i) == src_objects[i].id \in DOMAIN src_id_dst
        dst_obj(i) == src_id_dst[src_objects[i].id]
        creates == {i \in DOMAIN src_objects : ~known(i)}
        updates == {i \in DOMAIN src_objects : known(i) /\ Differs(src_objects[i], dst_obj(i))}
        same == {i \in DOMAIN src_objects : known(i) /\ ~Differs(src_objects[i], dst_obj(i))}
        new(i) == build_asset_create(src_objects[i], src_dst_ids_assets, project, runtime, depth_)
        upd(i) == build_asset_update(src_objects[i], dst_obj(i), src_dst_ids_assets,
                                     project, runtime, depth_)
        ci == SortInts(creates)
        ui == SortInts(updates)
        si == SortInts(same)
    IN  IF \E i \in creates : new(i).raised
        THEN [raised |-> TRUE, create |-> <<>>, update |-> <<>>, unchanged |-> <<>>]
        ELSE [raised |-> FALSE,
              create |-> [k \in 1..Len(ci) |-> new(ci[k]).asset],
              update |-> [k \in 1..Len(ui) |-> upd(ui[k])],
              unchanged |-> [k \in 1..Len(si) |-> dst_obj(si[k])]]

\* remove_not_replicated_in_dst, lines 148-151: the ids to delete, or the
\* KeyError of asset.metadata["_replicatedSource"].
remove_not_replicated_in_dst(listing) ==
    LET hit == {i \in DOMAIN listing :
                   \/ ~Truthy(listing[i].metadata)
                   \/ listing[i].metadata.map[KeySource] = ""}
    IN  IF \E i \in DOMAIN listing :
               Truthy(listing[i].metadata) /\ KeySource \notin DOMAIN listing[i].metadata.map
        THEN [raised |-> TRUE, ids |-> <<>>]
        ELSE [raised |-> FALSE, ids |-> [k \in 1..Cardinality(hit) |-> Pick(listing, hit)[k].id]]

\* remove_replicated_if_not_in_src, lines 164-170: the ids to delete, or the
\* KeyError of asset.metadata["_replicatedInternalId"].
remove_replicated_if_not_in_src(src_assets, listing) ==
    LET src_asset_ids == {src_assets[i].id : i \in DOMAIN src_assets}
        hit == {i \in DOMAIN listing :
                   /\ Truthy(listing[i].metadata)
                   /\ listing[i].metadata.map[KeyInternalId] # ""
                   /\ ToInt(listing[i].metadata.map[KeyInternalId]) \in src_asset_ids}
    IN  IF \E i \in DOMAIN listing :
               Truthy(listing[i].metadata) /\ KeyInternalId \notin DOMAIN listing[i].metadata.map
        THEN [raised |-> TRUE, ids |-> <<>>]
        ELSE [raised |-> FALSE, ids |-> [k \in 1..Cardinality(hit) |-> Pick(listing, hit)[k].id]]

\* client.assets.delete(id=[...]): removes the listed ids; an id that is not
\* there is no error.
Delete(store, ids) == {a \in store : a.id \notin Range(ids)}

\* ------------------------------------------------------------------ state
VARIABLES
    src,                \* the source project's assets
    dst,                \* the destination project's assets
    nextId,             \* the next internal id the destination store assigns
    now,                \* int(time.time()) at the next run
    changes,            \* edits made to the source so far
    pc,                 \* where replicate is
    delete_replicated_if_not_in_src,
    delete_not_replicated_in_dst,
    assets_src,         \* replicate's snapshot of the source (line 196)
    replicated_runtime,
    depth, children, src_dst_ids, src_id_dst_asset,
    create_assets, update_assets, unchanged_assets,
    created_assets, updated_assets,
    error,              \* the exception that ended the run, "" when none
    failures,           \* items the store refused in this run
    run,                \* what this run has done so far (history)
    prev                \* what the previous run returned (history)

locals == <<assets_src, replicated_runtime, depth, children, src_dst_ids, src_id_dst_asset,
            create_assets, update_assets, unchanged_assets, created_assets, updated_assets>>
flags == <<delete_replicated_if_not_in_src, delete_not_replicated_in_dst>>
stores == <<src, dst, nextId>>
vars == <<src, dst, nextId, now, changes, pc, flags, locals, error, failures, run, prev>>

EmptyMap == [k \in {} |-> 0]
NoRun == [dst0 |-> {}, created |-> {}, updated |-> {}, deleted |-> {},
          deleteCalls |-> 0, sweeps |-> {}, failed |-> {}]
NoPrev == [valid |-> FALSE, ids |-> EmptyMap, dst |-> {}]

\* The metadata of the assets the destination holds before the first run: none,
\* empty, a key of the owner's, or the id key alone (a replication key copied
\* by hand, without _replicatedSource).
OrganicMetadata ==
    {MdNone, MdDict(EmptyDict), MdDict("k" :> "v"), MdDict(KeyInternalId :> "1")}

\* Forests on the ids 1..n: the parent of an asset is None or a smaller id.
Forests(n) ==
    {{[id |-> i, parent_id |-> f[i], name |-> "a", metadata |-> MdNone] : i \in 1..n} :
        f \in {g \in [1..n -> 0..n] : \A i \in 1..n : g[i] < i}}

ClearLocals ==
    /\ assets_src = <<>>
    /\ replicated_runtime = 0
    /\ depth = 0
    /\ children = <<>>
    /\ src_dst_ids = EmptyMap
    /\ src_id_dst_asset = EmptyMap
    /\ create_assets = <<>>
    /\ update_assets = <<>>
    /\ unchanged_assets = <<>>
    /\ created_assets = <<>>
    /\ updated_assets = <<>>

InitRest ==
    /\ now = 1
    /\ changes = 0
    /\ pc = "idle"
    /\ delete_replicated_if_not_in_src = FALSE
    /\ delete_not_replicated_in_dst = FALSE
    /\ ClearLocals
    /\ error = ""
    /\ failures = 0
    /\ run = NoRun
    /\ prev = NoPrev

Init ==
    /\ src \in Forests(MaxSrc)
    /\ \E n \in 0..MaxOrganic : \E md \in [1..n -> OrganicMetadata] :
          /\ dst = {[id |-> i, parent_id |-> None, name |-> "o", metadata |-> md[i]] : i \in 1..n}
          /\ nextId = n + 1
    /\ InitRest

\* ---------------------------------------------------------- environment
RemoveSrcAsset ==
    /\ pc = "idle"
    /\ changes < MaxSrcChanges
    /\ \E a \in src : src' = src \ {a}
    /\ changes' = changes + 1
    /\ prev' = NoPrev
    /\ UNCHANGED <<dst, nextId, now, pc, flags, locals, error, failures, run>>

EditSrcAsset ==
    /\ pc = "idle"
    /\ changes < MaxSrcChanges
    /\ \E a \in src : \E p \in (0..MaxSrc) \ {a.id} : \E n \in {"a", "b"} :
          /\ <<p, n>> # <<a.parent_id, a.name>>
          /\ src' = (src \ {a}) \cup {[a EXCEPT !.parent_id = p, !.name = n]}
    /\ changes' = changes + 1
    /\ prev' = NoPrev
    /\ UNCHANGED <<dst, nextId, now, pc, flags, locals, error, failures, run>>

\* ------------------------------------------------------------- replicate
\* Lines 193-208 and 100-105: list both projects, take the run time, and enter
\* create_hierarchy.
Room(listing_src, listing_dst) ==
    LET known == DOMAIN make_id_object_map(listing_dst)
    IN  nextId - 1 + Cardinality({i \in DOMAIN listing_src : listing_src[i].id \notin known})
            <= MaxDstId

\* Faulty variant of StartRun, with make_id_object_map given the source
\* listing: no destination asset is in the lookup.
StartRun_srclookup(fa, fb, listing_src, listing_dst) ==
    /\ delete_replicated_if_not_in_src' = fa
    /\ delete_not_replicated_in_dst' = fb
    /\ assets_src' = listing_src
    /\ replicated_runtime' = now * 1000
    /\ depth' = 0
    /\ children' = find_children(listing_src, NoneList)
    /\ src_dst_ids' = EmptyMap
    /\ src_id_dst_asset' = make_id_object_map(listing_src)
    /\ UNCHANGED <<create_assets, update_assets, unchanged_assets, created_assets, updated_assets>>
    /\ error' = ""
    /\ failures' = 0
    /\ run' = [NoRun EXCEPT !.dst0 = dst]
    /\ pc' = "while"

StartRun(fa, fb, listing_src, listing_dst) ==
    /\ delete_replicated_if_not_in_src' = fa
    /\ delete_not_replicated_in_dst' = fb
    /\ assets_src' = listing_src
    /\ replicated_runtime' = now * 1000
    /\ depth' = 0
    /\ children' = find_children(listing_src, NoneList)
    /\ src_dst_ids' = EmptyMap
    /\ src_id_dst_asset' = make_id_object_map(listing_dst)
    /\ UNCHANGED <<create_assets, update_assets, unchanged_assets, created_assets, updated_assets>>
    /\ error' = ""
    /\ failures' = 0
    /\ run' = [NoRun EXCEPT !.dst0 = dst]
    /\ pc' = "while"

Replicate ==
    /\ pc = "idle"
    /\ Room(ListAssets(src), ListAssets(dst))
    /\ \E fa \in BOOLEAN, fb \in BOOLEAN : StartRun(fa, fb, ListAssets(src), ListAssets(dst))
    /\ UNCHANGED <<stores, now, changes, prev>>

\* Lines 107-118: the loop test and the classification of one depth.
MakeBatch ==
    /\ pc = "while"
    /\ children # <<>>
    /\ LET batch == make_objects_batch(children, src_id_dst_asset, src_dst_ids,
                                       project_src, replicated_runtime, depth)
       IN  IF batch.raised
           THEN /\ pc' = "aborted"
                /\ error' = "KeyError: parent_id"
                /\ UNCHANGED <<create_assets, update_assets, unchanged_assets, src_id_dst_asset>>
           ELSE /\ pc' = "create"
                /\ error' = error
                /\ create_assets' = batch.create
                /\ update_assets' = batch.update
                /\ unchanged_assets' = batch.unchanged
                \* build_asset_update assigns to the destination object the map holds
                /\ src_id_dst_asset' =
                      [k \in DOMAIN src_id_dst_asset |->
                          IF \E i \in DOMAIN batch.update : batch.update[i].id = src_id_dst_asset[k].id
                          THEN CHOOSE u \in Range(batch.update) : u.id = src_id_dst_asset[k].id
                          ELSE src_id_dst_asset[k]]
    /\ UNCHANGED <<stores, now, changes, flags, assets_src, replicated_runtime, depth, children,
                   src_dst_ids, created_assets, updated_assets, failures, run, prev>>

\* replication.retry: the items the store accepted; the others are logged.
Accepted(objects) ==
    {ok \in SUBSET DOMAIN objects : Len(objects) - Cardinality(ok) <= MaxFailures - failures}

\* Line 121: client.assets.create through retry; the store numbers the new assets.
CreateAssets ==
    /\ pc = "create"
    /\ \E ok \in Accepted(create_assets) :
          LET sent == Pick(create_assets, ok)
              made == [i \in 1..Len(sent) |-> [sent[i] EXCEPT !.id = nextId + i - 1]]
          IN  /\ created_assets' = made
              /\ dst' = dst \cup Range(made)
              /\ nextId' = nextId + Len(made)
              /\ failures' = failures + (Len(create_assets) - Len(made))
              /\ run' = [run EXCEPT !.created = @ \cup {made[i].id : i \in DOMAIN made},
                                    !.failed = @ \cup {SourceIdOf(create_assets[i]) :
                                                          i \in DOMAIN create_assets \ ok}]
    /\ pc' = "update"
    /\ UNCHANGED <<src, now, changes, flags, assets_src, replicated_runtime, depth, children,
                   src_dst_ids, src_id_dst_asset, create_assets, update_assets, unchanged_assets,
                   updated_assets, error, prev>>

\* Line 123: client.assets.update through retry.
UpdateAssets ==
    /\ pc = "update"
    /\ \E ok \in Accepted(update_assets) :
          LET done == Pick(update_assets, ok)
              ids == {done[i].id : i \in DOMAIN done}
          IN  /\ updated_assets' = done
              /\ dst' = {a \in dst : a.id \notin ids} \cup Range(done)
              /\ failures' = failures + (Len(update_assets) - Len(done))
              /\ run' = [run EXCEPT !.updated = @ \cup ids,
                                    !.failed = @ \cup {SourceIdOf(update_assets[i]) :
                                                          i \in DOMAIN update_assets \ ok}]
    /\ pc' = "fold"
    /\ UNCHANGED <<src, nextId, now, changes, flags, assets_src, replicated_runtime, depth, children,
                   src_dst_ids, src_id_dst_asset, create_assets, update_assets, unchanged_assets,
                   created_assets, error, prev>>

\* Faulty variant of NextDepth, with existing_mapping called without
\* ids=src_dst_ids: the mapping is rebuilt from the level's assets alone.
NextDepth_fresh ==
    /\ pc = "fold"
    /\ src_dst_ids' = existing_mapping(created_assets \o updated_assets \o unchanged_assets,
                                       EmptyMap)
    /\ depth' = depth + 1
    /\ children' = find_children(assets_src, children)
    /\ pc' = "while"
    /\ UNCHANGED <<stores, now, changes, flags, assets_src, replicated_runtime, src_id_dst_asset,
                   create_assets, update_assets, unchanged_assets, created_assets, updated_assets,
                   error, failures, run, prev>>

\* Faulty variant of NextDepth, without the fold of line 125: the loop goes one
\* level down with the Id Mapping as it was.
NextDepth_unfolded ==
    /\ pc = "fold"
    /\ src_dst_ids' = src_dst_ids
    /\ depth' = depth + 1
    /\ children' = find_children(assets_src, children)
    /\ pc' = "while"
    /\ UNCHANGED <<stores, now, changes, flags, assets_src, replicated_runtime, src_id_dst_asset,
                   create_assets, update_assets, unchanged_assets, created_assets, updated_assets,
                   error, failures, run, prev>>

\* Lines 125-135: fold the results into the Id Mapping and go one level down.
NextDepth ==
    /\ pc = "fold"
    /\ src_dst_ids' = existing_mapping(created_assets \o updated_assets \o unchanged_assets,
                                       src_dst_ids)
    /\ depth' = depth + 1
    /\ children' = find_children(assets_src, children)
    /\ pc' = "while"
    /\ UNCHANGED <<stores, now, changes, flags, assets_src, replicated_runtime, src_id_dst_asset,
                   create_assets, update_assets, unchanged_assets, created_assets, updated_assets,
                   error, failures, run, prev>>

\* Lines 107 and 137: the children set is empty, create_hierarchy returns.
ReturnIds ==
    /\ pc = "while"
    /\ children = <<>>
    /\ pc' = "sweepA"
    /\ UNCHANGED <<stores, now, changes, flags, locals, error, failures, run, prev>>

\* Line 216: remove_replicated_if_not_in_src lists the destination afresh and
\* issues one bulk delete, or raises.
RunSweepA ==
    LET r == remove_replicated_if_not_in_src(assets_src, ListAssets(dst))
    IN  IF r.raised
        THEN /\ pc' = "aborted"
             /\ error' = "KeyError: _replicatedInternalId"
             /\ dst' = dst
             /\ run' = [run EXCEPT !.sweeps = @ \cup {"A"}]
        ELSE /\ pc' = "sweepB"
             /\ error' = error
             /\ dst' = Delete(dst, r.ids)
             /\ run' = [run EXCEPT !.sweeps = @ \cup {"A"},
                                   !.deleted = @ \cup Range(r.ids),
                                   !.deleteCalls = @ + 1]

\* Line 222: remove_not_replicated_in_dst, likewise.
RunSweepB ==
    LET r == remove_not_replicated_in_dst(ListAssets(dst))
    IN  IF r.raised
        THEN /\ pc' = "aborted"
             /\ error' = "KeyError: _replicatedSource"
             /\ dst' = dst
             /\ run' = [run EXCEPT !.sweeps = @ \cup {"B"}]
        ELSE /\ pc' = "done"
             /\ error' = error
             /\ dst' = Delete(dst, r.ids)
             /\ run' = [run EXCEPT !.sweeps = @ \cup {"B"},
                                   !.deleted = @ \cup Range(r.ids),
                                   !.deleteCalls = @ + 1]

\* Faulty variant of lines 215-220: the sweep without its flag test.
SweepA_ungated ==
    /\ pc = "sweepA"
    /\ RunSweepA
    /\ UNCHANGED <<src, nextId, now, changes, flags, locals, failures, prev>>

\* Lines 215-220.
SweepA ==
    /\ pc = "sweepA"
    /\ IF delete_replicated_if_not_in_src
       THEN RunSweepA
       ELSE /\ pc' = "sweepB"
            /\ UNCHANGED <<dst, error, run>>
    /\ UNCHANGED <<src, nextId, now, changes, flags, locals, failures, prev>>

\* Lines 221-226.
SweepB ==
    /\ pc = "sweepB"
    /\ IF delete_not_replicated_in_dst
       THEN RunSweepB
       ELSE /\ pc' = "done"
            /\ UNCHANGED <<dst, error, run>>
    /\ UNCHANGED <<src, nextId, now, changes, flags, locals, failures, prev>>

\* replicate has returned or raised: its locals are gone.
Default == ~delete_replicated_if_not_in_src /\ ~delete_not_replicated_in_dst

Finish ==
    /\ pc \in {"done", "aborted"}
    /\ pc' = "idle"
    /\ prev' = IF pc = "done" /\ failures = 0 /\ Default
               THEN [valid |-> TRUE, ids |-> src_dst_ids, dst |-> dst]
               ELSE NoPrev
    /\ delete_replicated_if_not_in_src' = FALSE
    /\ delete_not_replicated_in_dst' = FALSE
    /\ assets_src' = <<>>
    /\ replicated_runtime' = 0
    /\ depth' = 0
    /\ children' = <<>>
    /\ src_dst_ids' = EmptyMap
    /\ src_id_dst_asset' = EmptyMap
    /\ create_assets' = <<>>
    /\ update_assets' = <<>>
    /\ unchanged_assets' = <<>>
    /\ created_assets' = <<>>
    /\ updated_assets' = <<>>
    /\ error' = ""
    /\ failures' = 0
    /\ run' = NoRun
    /\ now' = IF now < MaxTime THEN now + 1 ELSE now
    /\ UNCHANGED <<stores, changes>>

Next ==
    \/ RemoveSrcAsset
    \/ EditSrcAsset
    \/ Replicate
    \/ MakeBatch
    \/ CreateAssets
    \/ UpdateAssets
    \/ NextDepth
    \/ ReturnIds
    \/ SweepA
    \/ SweepB
    \/ Finish

Spec == Init /\ [][Next]_vars

\* ------------------------------------------------- end-to-end replication
\* One run into a destination that has never held an asset, from any source
\* forest of up to E2ESize assets, the store accepting every item.
InitE2E ==
    /\ \E n \in 1..E2ESize : src \in Forests(n)
    /\ dst = {}
    /\ nextId = 1
    /\ InitRest

ReplicateEmpty ==
    /\ pc = "idle"
    /\ dst = {}
    /\ nextId = 1
    /\ \E fa \in BOOLEAN, fb \in BOOLEAN : StartRun(fa, fb, ListAssets(src), ListAssets(dst))
    /\ UNCHANGED <<stores, now, changes, prev>>

CreateAll == CreateAssets /\ failures' = failures
UpdateAll == UpdateAssets /\ failures' = failures

NextE2E ==
    \/ ReplicateEmpty
    \/ MakeBatch
    \/ CreateAll
    \/ UpdateAll
    \/ NextDepth
    \/ ReturnIds
    \/ SweepA
    \/ SweepB
    \/ Finish

SpecE2E == InitE2E /\ [][NextE2E]_vars

\* ------------------------------------------------ arbitrary parent links
\* Runs over any source listing of up to WalkSize assets, each parent link
\* null, any id of the listing (the asset's own included, so cycles occur) or
\* an id the listing does not hold; the store accepts every item.  The depth
\* loop is sequential code: once entered it keeps running.
Graphs(n) ==
    {{[id |-> i, parent_id |-> f[i], name |-> "a", metadata |-> MdNone] : i \in 1..n} :
        f \in [1..n -> 0..(n + 1)]}

InitWalk ==
    /\ \E n \in 1..WalkSize : src \in Graphs(n)
    /\ dst = {}
    /\ nextId = 1
    /\ InitRest

Walk ==
    \/ MakeBatch
    \/ CreateAll
    \/ UpdateAll
    \/ NextDepth
    \/ ReturnIds

NextWalk ==
    \/ Replicate
    \/ Walk
    \/ SweepA
    \/ SweepB
    \/ Finish

SpecWalk == InitWalk /\ [][NextWalk]_vars /\ WF_vars(Walk)

\* ---------------------------------------------------------------- claims
Ids(assets) == {a.id : a \in assets}

\* The destination assets tagged with source id s.
Counterparts(s) == {d \in dst : HasInternalId(d) /\ ReplicatedInternalId(d) = s}

\* A destination asset is replicated when its metadata has a non-empty
\* _replicatedSource; every other destination asset is organic.
Replicated(d) ==
    /\ ~d.metadata.null
    /\ KeySource \in DOMAIN d.metadata.map
    /\ d.metadata.map[KeySource] # ""

\* The ids of the assets of a listing that a chain of parent links inside the
\* listing joins to a root.
RECURSIVE Closure(_, _)
Closure(assets, found) ==
    LET more == {a.id : a \in {b \in Range(assets) : b.parent_id \in found}} \ found
    IN  IF more = {} THEN found ELSE Closure(assets, found \cup more)
ReachableIds(assets) == Closure(assets, {a.id : a \in {b \in Range(assets) : b.parent_id = None}})

InRun == pc \notin {"idle"}
Returned == pc \in {"sweepA", "sweepB", "done"}

\* C1: after a complete run in which no store call failed, whatever the two
\* deletion flags, every source asset reachable from a root has exactly one
\* destination asset tagged with its internal id.
C1_OneCounterpart ==
    (pc = "done" /\ failures = 0) =>
        \A s \in ReachableIds(assets_src) : Cardinality(Counterparts(s)) = 1

\* C2: when Sweep A issues its bulk delete, it deletes exactly the destination
\* assets that carry a source id which is the id of no source asset, and keeps
\* every other asset.
C2_SweepADeletesOrphans ==
    [][(pc = "sweepA" /\ delete_replicated_if_not_in_src /\ pc' = "sweepB") =>
          dst' = {d \in dst : ~(HasInternalId(d)
                                   /\ ReplicatedInternalId(d) \notin Ids(Range(assets_src)))}]_vars

\* C3: Sweep B deletes every destination asset without replication tags, keeps
\* every replicated one, and returns exactly the ids of the untagged assets.
C3_SweepBPurgesUntagged ==
    [][(pc = "sweepB" /\ delete_not_replicated_in_dst) =>
          /\ pc' = "done"
          /\ dst' = {d \in dst : Replicated(d)}
          /\ run'.deleted = run.deleted \cup Ids({d \in dst : ~Replicated(d)})]_vars

\* The source asset of the snapshot with id s.
SrcAsset(s) == CHOOSE a \in Range(assets_src) : a.id = s

\* C4: whenever a create or an update payload of a source asset A with source
\* parent P is handed to the destination store, the Id Mapping has an entry
\* for P, failed items in earlier batches or not.
C4_ParentMappedBeforeSubmit ==
    pc \in {"create", "update"} =>
        \A a \in Range(create_assets) \cup Range(update_assets) :
            LET A == SrcAsset(SourceIdOf(a))
            IN  A.parent_id \in Ids(Range(assets_src)) => A.parent_id \in DOMAIN src_dst_ids

\* The source ids below s in the snapshot, s included.
RECURSIVE Below(_, _)
Below(assets, found) ==
    LET more == {a.id : a \in {b \in Range(assets) : b.parent_id \in found}} \ found
    IN  IF more = {} THEN found ELSE Below(assets, found \cup more)

\* C8: items refused by the store do not end create_hierarchy: it returns the
\* Id Mapping, and every source asset that is neither a refused item nor below
\* one has been created or updated and is in the mapping.
C8_PartialFailureNotFatal ==
    /\ error # "KeyError: parent_id"
    /\ Returned =>
          \A s \in ReachableIds(assets_src) \ Below(assets_src, run.failed) :
              /\ s \in DOMAIN src_dst_ids
              /\ Counterparts(s) # {}

\* C10: a destination asset with null, empty or tag-free metadata raises no
\* error in either sweep: Sweep A keeps it and issues its delete, Sweep B
\* deletes it and completes.
C10_SweepsTolerateMetadata ==
    [][/\ (pc = "sweepA" /\ delete_replicated_if_not_in_src) =>
              /\ pc' = "sweepB"
              /\ {d \in dst : ~Replicated(d)} \subseteq dst'
       /\ (pc = "sweepB" /\ delete_not_replicated_in_dst) =>
              /\ pc' = "done"
              /\ {d \in dst : ~Replicated(d)} \cap dst' = {}]_vars

\* A destination without the _replicatedTime values.
WithoutTime(assets) ==
    {[a EXCEPT !.metadata.map = [k \in DOMAIN a.metadata.map \ {KeyTime} |-> a.metadata.map[k]]] :
        a \in assets}

\* C5: a run with default flags and no refused item that follows such a run
\* on the unchanged source creates no destination asset, returns the same Id
\* Mapping, and leaves the destination as it was up to _replicatedTime.
C5_SecondRunIdempotent ==
    (pc = "done" /\ prev.valid /\ failures = 0 /\ Default) =>
        /\ run.created = {}
        /\ src_dst_ids = prev.ids
        /\ WithoutTime(dst) = WithoutTime(prev.dst)

C5_Witness ==
    /\ pc = "done" /\ prev.valid /\ failures = 0 /\ Default
    /\ depth >= 2
    /\ Cardinality(DOMAIN src_dst_ids) = MaxSrc
    /\ run.dst0 # {}

\* C6: one run into an empty destination with no refused item creates one
\* destination asset per source asset, each child's parent reference being the
\* destination id the Id Mapping holds for its source parent and each root's
\* being null, and returns one mapping entry per source asset.
C6_EmptyDestination ==
    (pc = "sweepA" /\ run.dst0 = {} /\ failures = 0) =>
        /\ Cardinality(dst) = Cardinality(src)
        /\ Ids(dst) = run.created
        /\ DOMAIN src_dst_ids = Ids(src)
        /\ \A s \in src :
              /\ Cardinality(Counterparts(s.id)) = 1
              /\ \A d \in Counterparts(s.id) :
                    /\ d.id = src_dst_ids[s.id]
                    /\ d.parent_id = IF s.parent_id = None THEN None
                                     ELSE src_dst_ids[s.parent_id]

ThreeLevelTree ==
    {[id |-> i, parent_id |-> <<0, 1, 1, 2, 2, 3>>[i], name |-> "a", metadata |-> MdNone] :
        i \in 1..6}

C6_Witness ==
    /\ pc = "sweepA" /\ run.dst0 = {} /\ failures = 0
    /\ src = ThreeLevelTree
    /\ Cardinality(run.created) = 6
    /\ Cardinality(DOMAIN src_dst_ids) = 6

\* C7: replicate deletes only when a flag asks for it: with both flags off no
\* delete call is issued and every destination asset there at the start of the
\* run is still there; a sweep is entered only if its flag is set, and a run
\* that completes has entered every sweep whose flag is set.
C7_DeletesOnlyOnFlag ==
    InRun =>
        /\ Default => (run.deleteCalls = 0 /\ Ids(run.dst0) \subseteq Ids(dst))
        /\ "A" \in run.sweeps => delete_replicated_if_not_in_src
        /\ "B" \in run.sweeps => delete_not_replicated_in_dst
        /\ pc \in {"sweepB", "done"} =>
              (delete_replicated_if_not_in_src => "A" \in run.sweeps)
        /\ pc = "done" => (delete_not_replicated_in_dst => "B" \in run.sweeps)

C7_Witness ==
    /\ pc = "done" /\ Default
    /\ run.dst0 # {}
    /\ run.created # {}
    /\ run.deleteCalls = 0

\* C9: building a create payload at depth > 0 for an asset whose parent id is
\* not in the Id Mapping ends the run with an error and writes nothing; every
\* destination asset created for a source asset that has a parent carries the
\* destination id the Id Mapping holds for that parent, never null.
MissingParent ==
    \E i \in DOMAIN children :
        /\ children[i].id \notin DOMAIN src_id_dst_asset
        /\ depth > 0
        /\ children[i].parent_id \notin DOMAIN src_dst_ids

C9_MissingParentAborts ==
    /\ [][(pc = "while" /\ children # <<>> /\ MissingParent) =>
             (pc' = "aborted" /\ dst' = dst)]_vars
    /\ [](InRun =>
             \A d \in {e \in dst : e.id \in run.created} :
                 LET A == SrcAsset(SourceIdOf(d))
                 IN  A.parent_id # None =>
                        /\ d.parent_id # None
                        /\ A.parent_id \in DOMAIN src_dst_ids
                        /\ d.parent_id = src_dst_ids[A.parent_id])

C9_Witness == pc = "aborted" /\ error = "KeyError: parent_id" /\ run.created # {}

\* C11: the destination forest is closed under parent references: the parent
\* of every destination asset is null or the id of an asset the destination
\* still holds, in every state of every run and between runs.
C11_ParentsStayInDestination ==
    \A d \in dst : d.parent_id = None \/ d.parent_id \in Ids(dst)

InLoop == pc \in {"while", "create", "update", "fold"}
Roots(assets) == {a \in Range(assets) : a.parent_id = None}

\* C12: the depth-0 batch is exactly the source assets whose parent reference
\* is null; no such asset is in the batch of a depth above 0; and every
\* destination asset created for one has a null parent.
C12_RootsOnlyAtDepthZero ==
    /\ (InLoop /\ depth = 0) => Range(children) = Roots(assets_src)
    /\ (InLoop /\ depth > 0) => Range(children) \cap Roots(assets_src) = {}
    /\ InRun =>
          \A d \in {e \in dst : e.id \in run.created} :
              SrcAsset(SourceIdOf(d)).parent_id = None => d.parent_id = None

C12_Witness ==
    /\ pc = "sweepA" /\ depth >= 2
    /\ \E d \in dst, e \in dst :
          /\ {d.id, e.id} \subseteq run.created
          /\ SrcAsset(SourceIdOf(d)).parent_id = None
          /\ e.parent_id = d.id

\* C13 (its last clause): an organic destination asset, one whose metadata has
\* no non-empty _replicatedSource, leaves the destination only in Sweep B run
\* with delete_not_replicated_in_dst set.
C13_OrganicLeavesOnlyInSweepB ==
    [][\A d \in dst :
          (~Replicated(d) /\ d.id \notin Ids(dst')) =>
              (pc = "sweepB" /\ delete_not_replicated_in_dst)]_vars

\* C14: for every finite source listing, cycles and dangling parent links
\* included, the depth loop of create_hierarchy ends when no item is refused:
\* the depth never exceeds the number of source assets, the loop raises no
\* error, and a run that has entered the loop reaches its return with an empty
\* children list.
C14_DepthLoopTerminates ==
    /\ [](InRun => depth <= Len(assets_src))
    /\ [](error # "KeyError: parent_id")
    /\ ((pc = "while") ~> (pc = "sweepA" /\ children = <<>>))

C14_Witness ==
    /\ pc = "sweepA" /\ depth >= 1 /\ run.created # {}
    /\ \E a \in Range(assets_src), b \in Range(assets_src) :
          /\ a.id # b.id
          /\ a.parent_id = b.id
          /\ b.parent_id = a.id

\* C15: an update changes neither the internal id nor the parent reference of
\* a destination asset: every update payload has the id and the parent of the
\* destination asset it is for, and a destination asset that was there when
\* the run began has, while it is there, the parent it had then, whatever the
\* parent of its source asset has become.
C15_UpdateKeepsParent ==
    /\ pc = "update" =>
          \A i \in DOMAIN update_assets :
              \E d \in dst : d.id = update_assets[i].id /\ d.parent_id = update_assets[i].parent_id
    /\ InRun =>
          \A d0 \in run.dst0 : \A d \in dst :
              d.id = d0.id => d.parent_id = d0.parent_id

C15_Witness ==
    /\ Returned
    /\ \E d \in dst :
          /\ d.id \in run.updated
          /\ LET A == SrcAsset(SourceIdOf(d))
             IN  /\ A.parent_id \in DOMAIN src_dst_ids
                 /\ d.parent_id # src_dst_ids[A.parent_id]

\* C16: within one run the Id Mapping only grows: a step of the run removes no
\* entry and gives no source id another destination id.
C16_MappingOnlyGrows ==
    [][(InRun /\ pc' # "idle") =>
          \A k \in DOMAIN src_dst_ids :
              k \in DOMAIN src_dst_ids' /\ src_dst_ids'[k] = src_dst_ids[k]]_vars

C16_Witness ==
    /\ pc = "while" /\ depth >= 2
    /\ Cardinality(DOMAIN src_dst_ids) >= 2
    /\ run.updated # {}

\* What one sweep function does to a destination: whether it raised, the ids
\* it deleted, and the destination it leaves.
SweepOutcome(r, store) ==
    [raised |-> r.raised,
     ids |-> IF r.raised THEN {} ELSE Range(r.ids),
     left |-> IF r.raised THEN store ELSE Delete(store, r.ids)]
OutcomeA(store) == SweepOutcome(remove_replicated_if_not_in_src(assets_src, ListAssets(store)), store)
OutcomeB(store) == SweepOutcome(remove_not_replicated_in_dst(ListAssets(store)), store)
NotRun(store) == [raised |-> FALSE, ids |-> {}, left |-> store]

\* The two sweeps one after the other, in either order; an error in the first
\* ends the run before the second.
AThenB ==
    LET a == OutcomeA(dst)
        b == IF a.raised THEN NotRun(a.left) ELSE OutcomeB(a.left)
    IN  [A |-> a.ids, B |-> b.ids, left |-> b.left]
BThenA ==
    LET b == OutcomeB(dst)
        a == IF b.raised THEN NotRun(b.left) ELSE OutcomeA(b.left)
    IN  [A |-> a.ids, B |-> b.ids, left |-> a.left]

\* C17: on the destination and the source snapshot the sweeps start from,
\* Sweep A followed by Sweep B and Sweep B followed by Sweep A leave the same
\* destination, and each sweep deletes the same ids in both orders.
C17_SweepsCommute == pc = "sweepA" => AThenB = BThenA

\* The number of parent links from a source asset up to a root, -1 when no
\* chain of parent links inside the listing joins it to a root.
RECURSIVE Distance(_, _, _)
Distance(assets, a, fuel) ==
    IF a.parent_id = None THEN 0
    ELSE IF fuel = 0 \/ ~(\E b \in Range(assets) : b.id = a.parent_id) THEN -1
    ELSE LET p == CHOOSE b \in Range(assets) : b.id = a.parent_id
             d == Distance(assets, p, fuel - 1)
         IN  IF d = -1 THEN -1 ELSE d + 1
Level(assets, k) == {a \in Range(assets) : Distance(assets, a, Len(assets)) = k}

\* C18: the levels are handled one after the other and the sweeps come last.
\* When the payloads of depth d are built, every write of the run so far is
\* in the Id Mapping, and so is every source asset of a level above that was
\* not refused, written or unchanged; the destination is written by the
\* create call only after the payloads are built and by the update call only
\* after the create call; a sweep runs only when the children list is empty.
C18_LevelsInSequence ==
    /\ [](pc \in {"while", "create"} =>
             /\ \A id \in run.created \cup run.updated :
                   \E k \in DOMAIN src_dst_ids : src_dst_ids[k] = id
             /\ \A k \in 0..(depth - 1) : \A a \in Level(assets_src, k) :
                   a.id \notin run.failed => a.id \in DOMAIN src_dst_ids)
    /\ [][(dst' # dst) => pc \in {"create", "update", "sweepA", "sweepB"}]_vars
    /\ [][(src_dst_ids' # src_dst_ids /\ pc' # "idle") => pc = "fold"]_vars
    /\ [](InRun /\ run.sweeps # {} => children = <<>> /\ pc \in {"sweepB", "done", "aborted"})

C18_Witness ==
    /\ pc = "create" /\ depth >= 1
    /\ run.updated # {}
    /\ create_assets # <<>>
    /\ \E k \in DOMAIN src_dst_ids : src_dst_ids[k] \notin run.created \cup run.updated

\* C19: when create_hierarchy starts, before the depth-0 batch is classified,
\* the Id Mapping has an entry for every source asset that has a counterpart
\* in the destination.
C19_MappingSeededAtStart ==
    (pc = "while" /\ depth = 0) =>
        \A s \in Range(assets_src) :
            (\E d \in Counterparts(s.id) : Replicated(d)) => s.id \in DOMAIN src_dst_ids

\* C19 as the code has it: when create_hierarchy starts the Id Mapping is
\* empty, and it is the lookup from source id to destination asset that has an
\* entry, a counterpart, for every source asset that has one.
C19_LookupSeededAtStart ==
    (pc = "while" /\ depth = 0) =>
        /\ src_dst_ids = EmptyMap
        /\ \A s \in Range(assets_src) :
              Counterparts(s.id) # {} =>
                  /\ s.id \in DOMAIN src_id_dst_asset
                  /\ src_id_dst_asset[s.id] \in Counterparts(s.id)

C19_Witness ==
    /\ pc = "while" /\ depth = 0
    /\ \E s \in Range(assets_src) : \E d \in Counterparts(s.id) : Replicated(d)

\* C20: when no item is refused, the batch of depth d is exactly the source
\* assets at distance d from a root, each once, so a reachable source asset is
\* in the batch of one level, its distance from the root; a source asset is
\* written at most once in a run; a source asset that no chain of parent
\* links joins to a root is never created or updated and has no entry in the
\* Id Mapping, which on return holds exactly the reachable source assets.
C20_OneLevelPerAsset ==
    /\ InLoop =>
          /\ Range(children) = Level(assets_src, depth)
          /\ Len(children) = Cardinality(Range(children))
    /\ InRun =>
          /\ \A d \in dst :
                d.id \in run.created \cup run.updated =>
                    /\ SourceIdOf(d) \in ReachableIds(assets_src)
                    /\ \A e \in dst :
                          (e.id \in run.created \cup run.updated /\ SourceIdOf(e) = SourceIdOf(d))
                              => e = d
          /\ DOMAIN src_dst_ids \subseteq ReachableIds(assets_src)
    /\ Returned => DOMAIN src_dst_ids = ReachableIds(assets_src)

C20_Witness ==
    /\ pc = "sweepA" /\ depth = 2
    /\ Cardinality(DOMAIN src_dst_ids) = 2
    /\ \E a \in Range(assets_src) :
          /\ a.id \notin ReachableIds(assets_src)
          /\ a.parent_id \notin Ids(Range(assets_src))

====
